---- MODULE Spec2Model ----
(***************************************************************************)
(* Model of the multi-source connector: the Scheduler (core/scheduler.js), *)
(* the pipeline lifecycle BaseStrategy.execute (core/baseStrategy.js, and  *)
(* its reactive variant kept in utils/dataFormatter.js), the broker        *)
(* publisher (core/kafkaPublisher.js) and the error classifier             *)
(* (utils/errorHandler.js).                                                *)
(*                                                                         *)
(* The repository holds two control-flow styles of the pipeline.  The      *)
(* variable `variant` fixes which one a run is built from:                 *)
(*   "async"    BaseStrategy of core/baseStrategy.js.  It awaits the       *)
(*              Observables that KafkaPublisher returns; an awaited        *)
(*              Observable is handed back as a value and never subscribed. *)
(*   "reactive" BaseStrategy of utils/dataFormatter.js:386-441.  The       *)
(*              publisher's Observables are composed into the chain that   *)
(*              the caller subscribes (app.js:45 subscribes the scheduler).*)
(* extract() and transform() are the per-source collaborators: their       *)
(* outcomes are drawn nondeterministically.                                *)
(***************************************************************************)
EXTENDS Integers, Sequences, FiniteSets, TLC

\* ------------------------------------------------------------------ bounds
MaxRecords == 1
MaxExec == 1
MaxStarts == 1
MaxRestarts == 2
MaxConfigs == 3
MaxTime == 180000
MaxRetriesCfg == 5
MaxClock == 2000

\* ------------------------------------------------------------ configuration
Sources == {"s1", "s2"}
Gens == 1..MaxRestarts
\* a pipeline instance: the source name and the start() that constructed it
Instances == Sources \X Gens

availableStrategies == {"chatwoot", "smartOLT"}

ConfigChoices ==
  { << [name |-> "s1", type |-> "chatwoot"], [name |-> "s2", type |-> "smartOLT"] >>,
    << [name |-> "s1", type |-> "chatwoot"], [name |-> "s2", type |-> "unknown"] >>,
    << [name |-> "s1", type |-> "unknown"],  [name |-> "s2", type |-> "none"] >> }

VARIABLES
  variant,          \* "async" | "reactive"
  sourcesConfig,    \* Scheduler.sourcesConfig
  schedRunning,     \* Scheduler.isRunning
  strategies,       \* Scheduler.strategies: sequence of instances
  timers,           \* Scheduler.timers: name -> generation of the instance its timer drives, 0 = no entry
  armed,            \* instances whose setInterval trigger is live
  startsPending,    \* start() calls suspended at `await connect()`: set of [gen, pc: "connecting" | "ready"]
  stopsPending,     \* the stop() call suspended at `await disconnect()`: "none" | "disconnecting" | "ready"
  nextGen,          \* number of start() calls that went past the guard
  isConnected,      \* KafkaPublisher.isConnected
  producer,         \* KafkaPublisher.producer: "null" | "built"
  isRunning,        \* BaseStrategy.isRunning, per instance
  lastExecution,    \* BaseStrategy.lastExecution: 0 = null, k = set by the k-th successful run
  lastError,        \* BaseStrategy.lastError: ErrorInfo or NullInfo
  executionCount,   \* BaseStrategy.executionCount
  inflight,         \* per instance: the execute() calls past the guard and not yet resolved
  out,              \* what the last step handed to a caller or to the publisher (NoResult: nothing)
  clsError,         \* classifier harness: the error under classification
  clsResult,        \* classifier harness: "none" | "true" | "false"
  http,             \* transport harness: the request of HttpClient.request under way
  pub,              \* publisher harness: what the last KafkaPublisher call did
  fac,              \* factory harness: what the last StrategyFactory call did
  eh,               \* error-handler harness: what the last ErrorHandler.handle call did
  tmr,              \* trigger harness: the clock, the setInterval timers and the execute() calls they made
  app,              \* process harness: app.js main and its signal handlers
  cw                \* chatwoot harness: the conversations of the account and the pipeline's watermark

schedVars == << schedRunning, strategies, timers, armed, startsPending, stopsPending, nextGen >>
schedRest == << schedRunning, strategies, timers, startsPending, stopsPending, nextGen >>
pubVars == << isConnected, producer >>
plVars == << isRunning, lastExecution, lastError, executionCount >>
cfgVars == << variant, sourcesConfig >>
auxVars == << fac, eh, tmr, app, cw >>
clsVars == << clsError, clsResult, http, pub, auxVars >>
vars == << cfgVars, schedVars, pubVars, plVars, inflight, out, clsVars >>

\* ------------------------------------------------------------------ errors
\* An error object: the fields the classifier reads.  statusCode 0 = absent.
Err(m, c, s, h) == [message |-> m, code |-> c, statusCode |-> s, isHttpError |-> h]

NullInfo == [message |-> "null", recoverable |-> FALSE, sourceName |-> "null"]

\* the error a concrete extract() raises: the transport's normalized HTTP 503
ExtractErrors == { Err("http 503", "none", 503, TRUE) }
TransformError == Err("transform failed", "none", 0, FALSE)
NotConnectedError == Err("KafkaPublisher no esta conectado", "none", 0, FALSE)
\* TypeError: dataFormatter.formatForKafka(...).pipe is not a function
PipeTypeError == Err("formatForKafka(...).pipe is not a function", "none", 0, FALSE)

recoverableErrors == {"ECONNRESET", "ETIMEDOUT", "ENOTFOUND", "EAI_AGAIN", "ECONNREFUSED"}

isRecoverableNo429(error) ==
  \/ error.code \in recoverableErrors
  \/ (error.isHttpError /\ error.statusCode >= 500 /\ error.statusCode < 600)

isRecoverable(error) ==
  \/ error.code \in recoverableErrors
  \/ (error.isHttpError /\ error.statusCode >= 500 /\ error.statusCode < 600)
  \/ error.statusCode = 429

\* ErrorHandler.handle: builds the ErrorInfo, then calls the reporting and metrics
\* sinks when they are configured; a sink call that throws is not caught
\* (sinkThrows: a configured sink threw in this call).
handle(error, context, sinkThrows) ==
  [ threw |-> sinkThrows,
    info  |-> [message |-> error.message,
               recoverable |-> isRecoverable(error),
               sourceName |-> context] ]

handleStrategyError(error, sourceName, sinkThrows) == handle(error, sourceName, sinkThrows)

\* createHttpError(statusCode, message): statusCode and the isHttpError marker are set
createHttpError(statusCode, message) == Err(message, "none", statusCode, TRUE)

\* ---------------------------------------------------------------- HttpClient
\* this.maxRetries and this.retryDelay when the environment sets neither
maxRetriesDefault == 3
retryDelay == 1000

\* the values of HTTP_MAX_RETRIES explored
RetryCaps == 0..MaxRetriesCfg

\* An error axios rejects with: its code and the status of error.response
\* (0: there is no response).  It has neither statusCode nor isHttpError.
AxiosErr(c, rs) ==
  [ message |-> "axios", code |-> c, statusCode |-> 0, isHttpError |-> FALSE,
    responseStatus |-> rs ]

AxiosErrors ==
  { AxiosErr("ECONNRESET", 0), AxiosErr("ERR_INVALID_URL", 0),
    AxiosErr("ERR_BAD_REQUEST", 404), AxiosErr("ERR_BAD_REQUEST", 429),
    AxiosErr("ERR_BAD_RESPONSE", 503) }

NoAxiosErr == AxiosErr("none", 0)

RECURSIVE Pow2(_)
\* Math.pow(2, n)
Pow2(n) == IF n = 0 THEN 1 ELSE 2 * Pow2(n - 1)

calculateBackoffFromCount(retryCount) == retryDelay * Pow2(retryCount + 1)

\* calculateBackoff(retryCount): this.retryDelay * Math.pow(2, retryCount)
calculateBackoff(retryCount) == retryDelay * Pow2(retryCount)

shouldRetryAnyStatus(error, retryCount, maxRetries) == ~(retryCount + 1 >= maxRetries)

\* shouldRetry(error, retryCount)
shouldRetry(error, retryCount, maxRetries) ==
  IF retryCount + 1 >= maxRetries
    THEN FALSE
    ELSE IF error.responseStatus = 0
      THEN TRUE
      ELSE error.responseStatus >= 500 \/ error.responseStatus = 429

WithOriginal(e, original) ==
  [ message |-> e.message, code |-> e.code, statusCode |-> e.statusCode,
    isHttpError |-> e.isHttpError, originalError |-> original ]

surfaceAlways500(error) == WithOriginal(createHttpError(500, error.message), error)

\* the catchError of request(): createHttpError(error.response?.status || 500,
\* error.message) with originalError = error
surface(error) ==
  WithOriginal(createHttpError(IF error.responseStatus /= 0 THEN error.responseStatus ELSE 500,
                               error.message),
               error)

NoSurfaced == WithOriginal(Err("none", "none", 0, FALSE), NoAxiosErr)

\* no request under way.  attempts: axios calls made; soFar: the counter of the
\* retry operator; delays: the waits before each retry; errors: the error of
\* each failed attempt; surfaced: the error handed to the caller.
NoRequest ==
  [ pc |-> "idle", maxRetries |-> maxRetriesDefault, attempts |-> 0, soFar |-> 0,
    delays |-> << >>, errors |-> << >>, surfaced |-> NoSurfaced ]

\* -------------------------------------------------------------------- data
NullData == [kind |-> "null", len |-> 0]
ObjectData == [kind |-> "object", len |-> 1]
ListData(n) == [kind |-> "list", len |-> n]
RawData == {NullData, ObjectData} \cup { ListData(n) : n \in 0..MaxRecords }
\* no extract() result was consumed in this step
NoData == [kind |-> "none", len |-> 0]

isEmptyNullOnly(rawData) == rawData.kind = "null"

\* !rawData || (Array.isArray(rawData) && rawData.length === 0)
isEmpty(rawData) == rawData.kind = "null" \/ (rawData.kind = "list" /\ rawData.len = 0)

\* Array.isArray(transformedData) ? transformedData.length : 1
recordCount(data) == IF data.kind = "list" THEN data.len ELSE 1

\* ------------------------------------------------------------------ results
NoInst == << "none", 0 >>

\* What a step handed back to a caller, and what it asked of the publisher.
\* kind: for execute "skipped" | "success" | "failure" | "raised"; for the
\* scheduler operations "ok" | "noop" | "threw".  publishAt: the publisher's
\* state when publish() was invoked; publishReturned: the Observable it returned;
\* sent: records handed to producer.send; acked: the broker acknowledged them;
\* extracted: what extract() handed to this step.
Result(op, kind) ==
  [ op |-> op, kind |-> kind, inst |-> NoInst, origin |-> "none",
    recordsProcessed |-> 0, error |-> NullInfo, extracted |-> NoData,
    calledTransform |-> FALSE, calledPublish |-> FALSE,
    publishAt |-> "none", publishReturned |-> "none", sent |-> 0, acked |-> FALSE,
    escaped |-> kind = "threw" ]

NoResult == Result("none", "none")

\* Scheduler.executeStrategy wraps `await strategy.execute()` in try/catch and
\* only logs: whether an exception raised by execute() leaves the tick.
tickEscapesUncaught(kind) == kind = "raised"

tickEscapes(kind) == FALSE

\* Scheduler.executeManually has no try/catch: `return await strategy.execute()`.
escapes(origin, kind) == IF origin = "tick" THEN tickEscapes(kind) ELSE kind = "raised"

ExecResult(p, origin, kind, n, err) ==
  [ Result("execute", kind) EXCEPT !.inst = p, !.origin = origin, !.recordsProcessed = n,
                                   !.error = err, !.escaped = escapes(origin, kind) ]

\* Scheduler.executeStrategy only logs the outcome of execute(): the triggers
\* that are live after a call on p ended with `kind`
triggersAfterFailureCancels(p, kind) ==
  IF kind \in {"failure", "raised"} THEN armed \ {p} ELSE armed

triggersAfter(p, kind) == armed

\* an execute() call past the guard: who made it, where it is suspended, and
\* the record count of the data it carries
NewCall(origin) == [ origin |-> origin, pc |-> "extract", n |-> 0 ]

RemoveAt(seq, i) == SubSeq(seq, 1, i - 1) \o SubSeq(seq, i + 1, Len(seq))

\* --------------------------------------------------------- KafkaPublisher
publishUnguarded(connected, data) ==
  [ returned |-> "send", error |-> NullInfo.message, sent |-> recordCount(data) ]

\* DataFormatter.formatForKafka is an async function: a call returns a Promise
\* of the envelope {metadata, payload}, or of the schema-registry encoding of it
\* when the registry is in use and the encoding succeeds.
formatForKafka(item, useSchemaRegistry, encodeFails) ==
  [ kind |-> "promise",
    value |-> [ encoded |-> useSchemaRegistry /\ ~encodeFails, payload |-> item ] ]

\* x.pipe(...) is a call of x.pipe: only an Observable has one
hasPipe(x) == x.kind = "observable"

\* KafkaPublisher.prepareMessages, run when publish() is called: maps every
\* item of dataArray to formatForKafka(item, ...).pipe(map(...)) and hands the
\* results to forkJoin.  threw: the map callback raised the TypeError;
\* messages: the number of messages forkJoin will emit together (forkJoin of
\* no Observable completes without emitting).
prepareMessages(len) ==
  IF len > 0 /\ ~hasPipe(formatForKafka("item", FALSE, FALSE))
    THEN [ threw |-> TRUE, messages |-> 0 ]
    ELSE [ threw |-> FALSE, messages |-> len ]

\* KafkaPublisher.publish: what the call does.  "throwError": it returns an
\* Observable that errors with the not-connected error when subscribed;
\* "threw": prepareMessages raised inside the call; "empty": the Observable
\* completes without a send; "send": on subscription one producer.send
\* carrying `sent` records is issued.
publish(connected, data) ==
  IF ~connected
    THEN [ returned |-> "throwError", error |-> NotConnectedError.message, sent |-> 0 ]
    ELSE IF prepareMessages(recordCount(data)).threw
      THEN [ returned |-> "threw", error |-> PipeTypeError.message, sent |-> 0 ]
      ELSE IF prepareMessages(recordCount(data)).messages = 0
        THEN [ returned |-> "empty", error |-> NullInfo.message, sent |-> 0 ]
        ELSE [ returned |-> "send", error |-> NullInfo.message,
               sent |-> prepareMessages(recordCount(data)).messages ]

connectUnguarded(connected) == [ returned |-> "chain" ]

\* KafkaPublisher.connect: "noop" is of(undefined) for a connected publisher;
\* "chain", once subscribed, builds the client and the producer and calls
\* producer.connect()
connect(connected) ==
  IF connected THEN [ returned |-> "noop" ] ELSE [ returned |-> "chain" ]

\* KafkaPublisher.disconnect: "noop" is of(undefined) for a publisher that is
\* not connected; "chain" wraps the producer.disconnect() made by the call
disconnect(connected) ==
  IF ~connected THEN [ returned |-> "noop" ] ELSE [ returned |-> "chain" ]

\* a field of a payload item: absent, a number or a string
Absent == [ t |-> "absent", n |-> 0, s |-> "" ]
Num(n) == [ t |-> "num", n |-> n, s |-> "" ]
Str(s) == [ t |-> "str", n |-> 0, s |-> s ]
FieldValues == { Absent, Num(0), Num(42), Str("abc"), Str("") }
Items == [ id : FieldValues, _id : FieldValues ]
NoItem == [ id |-> Absent, _id |-> Absent ]

\* JavaScript truthiness of a field: absent, 0 and "" are falsy
truthy(v) == (v.t = "num" /\ v.n /= 0) \/ (v.t = "str" /\ v.s /= "")

\* String(v) for the values of FieldValues
String(v) ==
  IF v.t = "str" THEN v.s
  ELSE IF v.t = "absent" THEN "undefined"
  ELSE IF v.n = 0 THEN "0" ELSE IF v.n = 42 THEN "42" ELSE "NaN"

\* KafkaPublisher.generateKey(data, metadata); source "" = metadata.source unset
generateKey(data, source) ==
  IF truthy(data.id) THEN String(data.id)
  ELSE IF truthy(data._id) THEN String(data._id)
  ELSE IF source /= "" THEN source ELSE "default"

\* no call of the error-handler harness yet
NoHandleCall ==
  [ op |-> "none", sentry |-> "absent", metricsCounter |-> "absent",
    threw |-> FALSE, returned |-> NullInfo ]

\* ------------------------------------------------------- scheduleStrategy
\* strategy.config.interval || 60000: an interval that is unset (0 here) or 0
\* is replaced by the default
defaultInterval == 60000

intervalOfNoDefault(configured) == configured

intervalOf(configured) == IF configured = 0 THEN defaultInterval ELSE configured

\* the trigger harness before any scheduleStrategy call.  Per source:
\* configured = config.interval, period = the period handed to setInterval
\* (0: no timer), at = the time of the scheduleStrategy call, next = the time
\* the timer fires next, calls = the times executeStrategy was called.
NoTimers ==
  [ now |-> 0,
    configured |-> [ n \in Sources |-> 0 ],
    period |-> [ n \in Sources |-> 0 ],
    at |-> [ n \in Sources |-> 0 ],
    next |-> [ n \in Sources |-> 0 ],
    calls |-> [ n \in Sources |-> << >> ] ]

\* ------------------------------------------------------------------ app.js
\* what scheduler.start() and scheduler.stop() hand to main and handleExit:
\* the async methods of core/scheduler.js return a Promise; the reactive build
\* that app.js is written against returns an Observable
schedulerReturns == IF variant = "async" THEN "promise" ELSE "observable"

\* x.subscribe(...) is a call of x.subscribe: a Promise has none
hasSubscribe(x) == x = "observable"

\* the process before main() runs.  exitCode -1: the process has not exited.
NotLaunched ==
  [ pc |-> "notLaunched", handlers |-> FALSE, subscribed |-> FALSE,
    signal |-> "none", stopCalled |-> FALSE, stopFinished |-> FALSE,
    stopFailed |-> FALSE, exitCode |-> -1, cause |-> "none" ]

Signals == {"SIGINT", "SIGTERM"}

\* ---------------------------------------------------------- ChatwootStrategy
\* new Date(conversation.created_at * 1000): Chatwoot reports created_at in
\* unix seconds, the watermark is kept in milliseconds
createdAt(conversation) == conversation.created_at * 1000

\* filterNewConversations(conversations): all of them while lastExecutionTime
\* is null, else those created strictly after it
filterNewConversations(conversations, lastExecutionTime) ==
  IF ~lastExecutionTime.set
    THEN conversations
    ELSE { c \in conversations : createdAt(c) > lastExecutionTime.at }

\* the chatwoot harness after the constructor: lastExecutionTime = null.
\* conversations: what the account holds; extracted: what the extract() of
\* the run under way returned; unpublished: conversations returned to a run
\* that failed, and not published since.
NoExtraction ==
  [ now |-> 0, lastExecutionTime |-> [ set |-> FALSE, at |-> 0 ],
    conversations |-> {}, pc |-> "idle", extracted |-> {},
    published |-> {}, unpublished |-> {} ]

\* nothing was asked of the publisher harness yet
NoCall ==
  [ op |-> "none", pc |-> "idle", connectedBefore |-> FALSE, returned |-> "none",
    built |-> FALSE, brokerCalls |-> 0, items |-> 0, sent |-> 0,
    useSchemaRegistry |-> FALSE, encodeFails |-> FALSE, fallback |-> FALSE,
    item |-> NoItem, source |-> "", key |-> "none" ]

\* Whether the Observable handed to `await`, or composed into the chain, is subscribed.
subscribes == variant = "reactive"

At(connected) == IF connected THEN "connected" ELSE "disconnected"

\* --------------------------------------------------- BaseStrategy.execute
reentrantNever(p) == FALSE

\* if (this.isRunning) ...
reentrant(p) == isRunning[p]

MayRun(p) == executionCount[p] < MaxExec

skipFrameClearsFlag(p) ==
  /\ isRunning' = [isRunning EXCEPT ![p] = FALSE]
  /\ UNCHANGED << lastExecution, lastError, executionCount, inflight >>

\* return { skipped: true, reason }: nothing of the pipeline is touched
skipFrame(p) == UNCHANGED << plVars, inflight >>

\* this.isRunning = true; ... await this.extract()
executeBegin(p, origin) ==
  /\ isRunning' = [isRunning EXCEPT ![p] = TRUE]
  /\ inflight' = [inflight EXCEPT ![p] = Append(@, NewCall(origin))]
  /\ UNCHANGED << lastExecution, lastError, executionCount >>

\* what the call returns before its first await: the skipped result, or nothing yet
executeOut(p, origin) ==
  IF reentrant(p) THEN ExecResult(p, origin, "skipped", 0, NullInfo) ELSE NoResult

executeState(p, origin) ==
  IF reentrant(p) THEN skipFrame(p) ELSE executeBegin(p, origin)

execute(p, origin) == executeState(p, origin) /\ out' = executeOut(p, origin)

\* catch (error) { this.lastError = handleStrategyError(...); return {success:false,..} }
\* finally { this.isRunning = false }
failWith(p, i, error, sinkThrows, r) ==
  LET h == handleStrategyError(error, p[1], sinkThrows) IN
  /\ lastError' = IF h.threw THEN lastError ELSE [lastError EXCEPT ![p] = h.info]
  /\ isRunning' = [isRunning EXCEPT ![p] = FALSE]
  /\ inflight' = [inflight EXCEPT ![p] = RemoveAt(@, i)]
  /\ out' = IF h.threw
              THEN [r EXCEPT !.kind = "raised", !.escaped = escapes(r.origin, "raised")]
              ELSE [r EXCEPT !.kind = "failure", !.error = h.info,
                             !.escaped = escapes(r.origin, "failure")]
  /\ armed' = triggersAfter(p, IF h.threw THEN "raised" ELSE "failure")
  /\ UNCHANGED << lastExecution, executionCount >>

\* this.lastExecution = new Date(); this.lastError = null; this.executionCount++
\* return { success: true, recordsProcessed, duration }; finally isRunning = false
succeedWith(p, i, r) ==
  /\ lastExecution' = [lastExecution EXCEPT ![p] = executionCount[p] + 1]
  /\ lastError' = [lastError EXCEPT ![p] = NullInfo]
  /\ executionCount' = [executionCount EXCEPT ![p] = @ + 1]
  /\ isRunning' = [isRunning EXCEPT ![p] = FALSE]
  /\ inflight' = [inflight EXCEPT ![p] = RemoveAt(@, i)]
  /\ armed' = triggersAfter(p, "success")
  /\ out' = r

returnEmptyKeepsRunning(p, i, r) ==
  /\ inflight' = [inflight EXCEPT ![p] = RemoveAt(@, i)]
  /\ armed' = triggersAfter(p, "success")
  /\ out' = r
  /\ UNCHANGED << isRunning, lastExecution, lastError, executionCount >>

\* async: return { success: true, recordsProcessed: 0 } straight from the try block
returnEmpty(p, i, r) ==
  /\ isRunning' = [isRunning EXCEPT ![p] = FALSE]
  /\ inflight' = [inflight EXCEPT ![p] = RemoveAt(@, i)]
  /\ armed' = triggersAfter(p, "success")
  /\ out' = r
  /\ UNCHANGED << lastExecution, lastError, executionCount >>

Suspended(p, i, pc) == i \in 1..Len(inflight[p]) /\ inflight[p][i].pc = pc

\* extract() rejects (or throws)
ExtractFails(p, i, error, sinkThrows) ==
  /\ Suspended(p, i, "extract")
  /\ failWith(p, i, error, sinkThrows, ExecResult(p, inflight[p][i].origin, "failure", 0, NullInfo))
  /\ UNCHANGED << cfgVars, schedRest, pubVars, clsVars >>

\* extract() resolves with null or an empty list.  The async variant returns
\* at once; the reactive variant emits the result into the tap that does the
\* success bookkeeping.
ExtractEmpty(p, i, rawData) ==
  /\ Suspended(p, i, "extract")
  /\ isEmpty(rawData)
  /\ IF variant = "async"
       THEN returnEmpty(p, i, [ExecResult(p, inflight[p][i].origin, "success", 0, NullInfo)
                                 EXCEPT !.extracted = rawData])
       ELSE succeedWith(p, i, [ExecResult(p, inflight[p][i].origin, "success", 0, NullInfo)
                                 EXCEPT !.extracted = rawData])
  /\ UNCHANGED << cfgVars, schedRest, pubVars, clsVars >>

\* async: extract() resolves with data; transform(rawData) is called and awaited
ExtractData(p, i, rawData) ==
  /\ variant = "async"
  /\ Suspended(p, i, "extract")
  /\ ~isEmpty(rawData)
  /\ inflight' = [inflight EXCEPT ![p][i] = [@ EXCEPT !.pc = "transform", !.n = recordCount(rawData)]]
  /\ out' = [Result("transform", "ok") EXCEPT
               !.inst = p, !.origin = inflight[p][i].origin, !.extracted = rawData,
               !.calledTransform = TRUE]
  /\ UNCHANGED << cfgVars, schedVars, pubVars, plVars, clsVars >>

\* async: transform() rejects
TransformFails(p, i, sinkThrows) ==
  /\ variant = "async"
  /\ Suspended(p, i, "transform")
  /\ failWith(p, i, TransformError, sinkThrows,
              [ExecResult(p, inflight[p][i].origin, "failure", 0, NullInfo)
                 EXCEPT !.calledTransform = TRUE])
  /\ UNCHANGED << cfgVars, schedRest, pubVars, clsVars >>

\* async: transform() resolves; kafkaPublisher.publish(...) is called and the
\* Observable it returns is awaited
TransformDone(p, i) ==
  /\ variant = "async"
  /\ Suspended(p, i, "transform")
  /\ LET obs == publish(isConnected, ListData(inflight[p][i].n)) IN
     /\ inflight' = [inflight EXCEPT ![p][i] = [@ EXCEPT !.pc = "publish"]]
     /\ out' = [Result("publish", "ok") EXCEPT
                  !.inst = p, !.origin = inflight[p][i].origin, !.calledPublish = TRUE,
                  !.publishAt = At(isConnected), !.publishReturned = obs.returned,
                  !.sent = IF subscribes THEN obs.sent ELSE 0]
  /\ UNCHANGED << cfgVars, schedVars, pubVars, plVars, clsVars >>

\* async: the await of the (unsubscribed) Observable resumes; the rest of the
\* try block runs
PublishAwaited(p, i) ==
  /\ variant = "async"
  /\ Suspended(p, i, "publish")
  /\ succeedWith(p, i, [ExecResult(p, inflight[p][i].origin, "success", inflight[p][i].n, NullInfo)
                          EXCEPT !.calledTransform = TRUE, !.calledPublish = TRUE])
  /\ UNCHANGED << cfgVars, schedRest, pubVars, clsVars >>

\* reactive: extract() emits data; transform(rawData) runs synchronously and throws
ExtractDataTransformThrows(p, i, rawData, sinkThrows) ==
  /\ variant = "reactive"
  /\ Suspended(p, i, "extract")
  /\ ~isEmpty(rawData)
  /\ failWith(p, i, TransformError, sinkThrows,
              [ExecResult(p, inflight[p][i].origin, "failure", 0, NullInfo)
                 EXCEPT !.calledTransform = TRUE, !.extracted = rawData])
  /\ UNCHANGED << cfgVars, schedRest, pubVars, clsVars >>

\* reactive: extract() emits data; transform() returns; publish() is called and
\* switchMap subscribes its Observable: not connected -> the error reaches catchError
ExtractDataNotConnected(p, i, rawData, sinkThrows) ==
  /\ variant = "reactive"
  /\ Suspended(p, i, "extract")
  /\ ~isEmpty(rawData)
  /\ LET obs == publish(isConnected, rawData) IN
     /\ obs.returned = "throwError"
     /\ failWith(p, i, NotConnectedError, sinkThrows,
                 [ExecResult(p, inflight[p][i].origin, "failure", 0, NullInfo)
                    EXCEPT !.calledTransform = TRUE, !.calledPublish = TRUE,
                           !.extracted = rawData,
                           !.publishAt = At(isConnected), !.publishReturned = obs.returned,
                           !.sent = obs.sent])
  /\ UNCHANGED << cfgVars, schedRest, pubVars, clsVars >>

\* reactive: ... connected -> publish() raises inside the switchMap callback;
\* the error reaches catchError
ExtractDataPublishThrows(p, i, rawData, sinkThrows) ==
  /\ variant = "reactive"
  /\ Suspended(p, i, "extract")
  /\ ~isEmpty(rawData)
  /\ LET obs == publish(isConnected, rawData) IN
     /\ obs.returned = "threw"
     /\ failWith(p, i, PipeTypeError, sinkThrows,
                 [ExecResult(p, inflight[p][i].origin, "failure", 0, NullInfo)
                    EXCEPT !.calledTransform = TRUE, !.calledPublish = TRUE,
                           !.extracted = rawData,
                           !.publishAt = At(isConnected), !.publishReturned = obs.returned,
                           !.sent = obs.sent])
  /\ UNCHANGED << cfgVars, schedRest, pubVars, clsVars >>

\* ---------------------------------------------------------- StrategyFactory
\* an entry of the configs array that is null (or undefined)
NullConfig == [name |-> "null", type |-> "null"]

\* createStrategy throws on a missing type ("none") or an unregistered one
resolves(config) == config.type /= "none" /\ config.type \in availableStrategies

\* createStrategies' catch block logs `config.name`: reading it raises when
\* the entry itself is null
catchRaises(config) == ~resolves(config) /\ config = NullConfig

\* whether createStrategies(configs) raises to its caller
createStrategiesRaises(configs) == \E k \in 1..Len(configs) : catchRaises(configs[k])

\* no call of the factory harness yet
NoFactoryCall == [ op |-> "none", configs |-> << >>, raised |-> FALSE, created |-> << >> ]

\* createStrategies: one instance per entry that createStrategy accepts, in order
createStrategies(configs, gen) ==
  LET ok == SelectSeq(configs, resolves) IN
  [ k \in 1..Len(ok) |-> << ok[k].name, gen >> ]

Range(seq) == { seq[k] : k \in 1..Len(seq) }

\* this.strategies.find(s => s.name === strategyName): the first match, or NoInst
find(name) ==
  IF \E k \in 1..Len(strategies) : strategies[k][1] = name
    THEN strategies[CHOOSE k \in 1..Len(strategies) :
                      /\ strategies[k][1] = name
                      /\ \A j \in 1..(k - 1) : strategies[j][1] /= name]
    ELSE NoInst

\* ---------------------------------------------------------------- Scheduler
\* the instances the entries of a timers Map drive
TimerTargets(map) == { << n, map[n] >> : n \in { m \in Sources : map[m] /= 0 } }

StartNoopReschedules ==
  /\ schedRunning
  /\ out' = Result("start", "noop")
  /\ armed' = Range(strategies)
  /\ UNCHANGED << cfgVars, schedRest, pubVars, plVars, inflight, clsVars >>

\* start(): if (this.isRunning) { warn; return }
StartNoop ==
  /\ schedRunning
  /\ out' = Result("start", "noop")
  /\ UNCHANGED << cfgVars, schedVars, pubVars, plVars, inflight, clsVars >>

\* start(): await this.kafkaPublisher.connect().  connect() returns at once when
\* already connected; otherwise its Observable, once subscribed, builds the
\* client and the producer and calls producer.connect().
StartCallUpTo(limit) ==
  /\ ~schedRunning
  /\ nextGen < limit
  /\ nextGen' = nextGen + 1
  /\ IF subscribes /\ connect(isConnected).returned = "chain"
       THEN /\ producer' = "built"
            /\ startsPending' = startsPending \cup { [gen |-> nextGen + 1, pc |-> "connecting"] }
       ELSE /\ producer' = producer
            /\ startsPending' = startsPending \cup { [gen |-> nextGen + 1, pc |-> "ready"] }
  /\ out' = NoResult
  /\ UNCHANGED << cfgVars, schedRunning, strategies, timers, armed, stopsPending,
                  isConnected, plVars, inflight, clsVars >>

\* start() past its guard, in a run of at most MaxStarts such calls
StartCall == StartCallUpTo(MaxStarts)

\* producer.connect() resolves: tap(() => this.isConnected = true)
BrokerConnected(s) ==
  /\ s \in startsPending /\ s.pc = "connecting"
  /\ isConnected' = TRUE
  /\ startsPending' = (startsPending \ {s}) \cup { [s EXCEPT !.pc = "ready"] }
  /\ out' = NoResult
  /\ UNCHANGED << cfgVars, schedRunning, strategies, timers, armed, stopsPending, nextGen,
                  producer, plVars, inflight, clsVars >>

\* producer.connect() rejects: start() logs and rethrows
BrokerConnectFails(s) ==
  /\ s \in startsPending /\ s.pc = "connecting"
  /\ startsPending' = startsPending \ {s}
  /\ out' = Result("start", "threw")
  /\ UNCHANGED << cfgVars, schedRunning, strategies, timers, armed, stopsPending, nextGen,
                  pubVars, plVars, inflight, clsVars >>

StartFailsEmptyMarksRunning(s) ==
  /\ s \in startsPending /\ s.pc = "ready"
  /\ Len(createStrategies(sourcesConfig, s.gen)) = 0
  /\ strategies' = createStrategies(sourcesConfig, s.gen)
  /\ schedRunning' = TRUE
  /\ startsPending' = startsPending \ {s}
  /\ out' = Result("start", "threw")
  /\ UNCHANGED << cfgVars, timers, armed, stopsPending, nextGen,
                  pubVars, plVars, inflight, clsVars >>

\* start() after the await: createStrategies yields nothing -> throw
StartFailsEmpty(s) ==
  /\ s \in startsPending /\ s.pc = "ready"
  /\ Len(createStrategies(sourcesConfig, s.gen)) = 0
  /\ strategies' = createStrategies(sourcesConfig, s.gen)
  /\ startsPending' = startsPending \ {s}
  /\ out' = Result("start", "threw")
  /\ UNCHANGED << cfgVars, schedRunning, timers, armed, stopsPending, nextGen,
                  pubVars, plVars, inflight, clsVars >>

\* start() after the await: every created strategy goes through scheduleStrategy
\* (executeStrategy at once -- execute() runs to its first await --, then
\* setInterval, then timers.set); this.isRunning = true
StartFinish(s) ==
  /\ s \in startsPending /\ s.pc = "ready"
  /\ LET created == createStrategies(sourcesConfig, s.gen)
         begun == { q \in Range(created) : ~reentrant(q) } IN
     /\ Len(created) > 0
     /\ strategies' = created
     /\ isRunning' = [ q \in Instances |-> IF q \in begun THEN TRUE ELSE isRunning[q] ]
     /\ inflight' = [ q \in Instances |->
                        IF q \in begun THEN Append(inflight[q], NewCall("tick")) ELSE inflight[q] ]
     /\ armed' = armed \cup Range(created)
     /\ timers' = [ n \in Sources |-> IF << n, s.gen >> \in Range(created) THEN s.gen ELSE timers[n] ]
  /\ schedRunning' = TRUE
  /\ startsPending' = startsPending \ {s}
  /\ out' = Result("start", "ok")
  /\ UNCHANGED << cfgVars, stopsPending, nextGen, pubVars, lastExecution, lastError,
                  executionCount, clsVars >>

\* the setInterval callback: this.executeStrategy(strategy)
Tick(p) ==
  /\ p \in armed
  /\ MayRun(p)
  /\ execute(p, "tick")
  /\ UNCHANGED << cfgVars, schedVars, pubVars, clsVars >>

\* stop(): if (!this.isRunning) return
StopNoop ==
  /\ ~schedRunning
  /\ out' = Result("stop", "noop")
  /\ UNCHANGED << cfgVars, schedVars, pubVars, plVars, inflight, clsVars >>

StopCallKeepsTimers ==
  /\ schedRunning
  /\ stopsPending = "none"
  /\ stopsPending' = IF subscribes /\ disconnect(isConnected).returned = "chain"
                        THEN "disconnecting" ELSE "ready"
  /\ out' = NoResult
  /\ UNCHANGED << cfgVars, schedRunning, strategies, timers, armed, startsPending, nextGen,
                  pubVars, plVars, inflight, clsVars >>

\* stop(): clearInterval on every entry of timers, timers.clear(), then
\* await this.kafkaPublisher.disconnect()
StopCall ==
  /\ schedRunning
  /\ stopsPending = "none"
  /\ armed' = armed \ TimerTargets(timers)
  /\ timers' = [ n \in Sources |-> 0 ]
  /\ stopsPending' = IF subscribes /\ disconnect(isConnected).returned = "chain"
                        THEN "disconnecting" ELSE "ready"
  /\ out' = NoResult
  /\ UNCHANGED << cfgVars, schedRunning, strategies, startsPending, nextGen,
                  pubVars, plVars, inflight, clsVars >>

\* producer.disconnect() resolves: tap(() => this.isConnected = false)
BrokerDisconnected ==
  /\ stopsPending = "disconnecting"
  /\ isConnected' = FALSE
  /\ stopsPending' = "ready"
  /\ out' = NoResult
  /\ UNCHANGED << cfgVars, schedRunning, strategies, timers, armed, startsPending, nextGen,
                  producer, plVars, inflight, clsVars >>

\* producer.disconnect() rejects: stop() rethrows before this.isRunning = false
BrokerDisconnectFails ==
  /\ stopsPending = "disconnecting"
  /\ stopsPending' = "none"
  /\ out' = Result("stop", "threw")
  /\ UNCHANGED << cfgVars, schedRunning, strategies, timers, armed, startsPending, nextGen,
                  pubVars, plVars, inflight, clsVars >>

\* stop() after the await: this.isRunning = false
StopFinish ==
  /\ stopsPending = "ready"
  /\ schedRunning' = FALSE
  /\ stopsPending' = "none"
  /\ out' = Result("stop", "ok")
  /\ UNCHANGED << cfgVars, strategies, timers, armed, startsPending, nextGen,
                  pubVars, plVars, inflight, clsVars >>

\* executeManually(name): no strategy of that name -> throw
ExecuteManuallyUnknown(name) ==
  /\ find(name) = NoInst
  /\ out' = Result("executeManually", "threw")
  /\ UNCHANGED << cfgVars, schedVars, pubVars, plVars, inflight, clsVars >>

ExecuteManuallyUnguarded(name) ==
  /\ find(name) /= NoInst
  /\ MayRun(find(name))
  /\ executeBegin(find(name), "manual")
  /\ out' = NoResult
  /\ UNCHANGED << cfgVars, schedVars, pubVars, clsVars >>

\* executeManually(name): return await strategy.execute(this.kafkaPublisher)
ExecuteManually(name) ==
  /\ find(name) /= NoInst
  /\ MayRun(find(name))
  /\ execute(find(name), "manual")
  /\ UNCHANGED << cfgVars, schedVars, pubVars, clsVars >>

\* pauseStrategy(name): no timer under that name -> throw
PauseUnknown(name) ==
  /\ timers[name] = 0
  /\ out' = Result("pauseStrategy", "threw")
  /\ UNCHANGED << cfgVars, schedVars, pubVars, plVars, inflight, clsVars >>

pauseStrategyAll(name) ==
  /\ timers[name] /= 0
  /\ armed' = armed \ TimerTargets(timers)
  /\ timers' = [ n \in Sources |-> 0 ]
  /\ out' = Result("pauseStrategy", "ok")
  /\ UNCHANGED << cfgVars, schedRunning, strategies, startsPending, stopsPending, nextGen,
                  pubVars, plVars, inflight, clsVars >>

\* pauseStrategy(name): clearInterval(timer); this.timers.delete(name)
pauseStrategy(name) ==
  /\ timers[name] /= 0
  /\ armed' = armed \ { << name, timers[name] >> }
  /\ timers' = [timers EXCEPT ![name] = 0]
  /\ out' = Result("pauseStrategy", "ok")
  /\ UNCHANGED << cfgVars, schedRunning, strategies, startsPending, stopsPending, nextGen,
                  pubVars, plVars, inflight, clsVars >>

\* resumeStrategy(name): unknown name -> throw; timer present -> warn and return
ResumeNoop(name) ==
  /\ find(name) = NoInst \/ timers[name] /= 0
  /\ out' = IF find(name) = NoInst THEN Result("resumeStrategy", "threw")
                                   ELSE Result("resumeStrategy", "noop")
  /\ UNCHANGED << cfgVars, schedVars, pubVars, plVars, inflight, clsVars >>

\* resumeStrategy(name): this.scheduleStrategy(strategy)
resumeStrategy(name) ==
  /\ find(name) /= NoInst
  /\ timers[name] = 0
  /\ MayRun(find(name))
  /\ executeState(find(name), "tick")
  /\ armed' = armed \cup { find(name) }
  /\ timers' = [timers EXCEPT ![name] = find(name)[2]]
  /\ out' = [Result("resumeStrategy", "ok") EXCEPT !.inst = find(name)]
  /\ UNCHANGED << cfgVars, schedRunning, strategies, startsPending, stopsPending, nextGen,
                  pubVars, clsVars >>

\* ------------------------------------------------------------ specification
Init ==
  /\ variant \in {"async", "reactive"}
  /\ sourcesConfig \in ConfigChoices
  /\ schedRunning = FALSE
  /\ strategies = << >>
  /\ timers = [ n \in Sources |-> 0 ]
  /\ armed = {}
  /\ startsPending = {}
  /\ stopsPending = "none"
  /\ nextGen = 0
  /\ isConnected = FALSE
  /\ producer = "null"
  /\ isRunning = [ p \in Instances |-> FALSE ]
  /\ lastExecution = [ p \in Instances |-> 0 ]
  /\ lastError = [ p \in Instances |-> NullInfo ]
  /\ executionCount = [ p \in Instances |-> 0 ]
  /\ inflight = [ p \in Instances |-> << >> ]
  /\ out = NoResult
  /\ clsError = Err("none", "none", 0, FALSE)
  /\ clsResult = "none"
  /\ http = NoRequest
  /\ pub = NoCall
  /\ fac = NoFactoryCall
  /\ eh = NoHandleCall
  /\ tmr = NoTimers
  /\ app = NotLaunched
  /\ cw = NoExtraction

Calls(p) == 1..Len(inflight[p])

\* every step but a start() going past its guard
Steps ==
  \/ StartNoop
  \/ \E s \in startsPending : BrokerConnected(s)
  \/ \E s \in startsPending : BrokerConnectFails(s)
  \/ \E s \in startsPending : StartFailsEmpty(s)
  \/ \E s \in startsPending : StartFinish(s)
  \/ \E p \in Instances : Tick(p)
  \/ StopNoop
  \/ StopCall
  \/ BrokerDisconnected
  \/ BrokerDisconnectFails
  \/ StopFinish
  \/ \E n \in Sources : ExecuteManuallyUnknown(n)
  \/ \E n \in Sources : ExecuteManually(n)
  \/ \E n \in Sources : PauseUnknown(n)
  \/ \E n \in Sources : pauseStrategy(n)
  \/ \E n \in Sources : ResumeNoop(n)
  \/ \E n \in Sources : resumeStrategy(n)
  \/ \E p \in Instances : \E i \in Calls(p), e \in ExtractErrors, st \in BOOLEAN : ExtractFails(p, i, e, st)
  \/ \E p \in Instances : \E i \in Calls(p), d \in RawData : ExtractEmpty(p, i, d)
  \/ \E p \in Instances : \E i \in Calls(p), d \in RawData : ExtractData(p, i, d)
  \/ \E p \in Instances : \E i \in Calls(p), st \in BOOLEAN : TransformFails(p, i, st)
  \/ \E p \in Instances : \E i \in Calls(p) : TransformDone(p, i)
  \/ \E p \in Instances : \E i \in Calls(p) : PublishAwaited(p, i)
  \/ \E p \in Instances : \E i \in Calls(p), d \in RawData, st \in BOOLEAN : ExtractDataTransformThrows(p, i, d, st)
  \/ \E p \in Instances : \E i \in Calls(p), d \in RawData, st \in BOOLEAN : ExtractDataNotConnected(p, i, d, st)
  \/ \E p \in Instances : \E i \in Calls(p), d \in RawData, st \in BOOLEAN : ExtractDataPublishThrows(p, i, d, st)

Next ==
  \/ StartCall
  \/ Steps

Spec == Init /\ [][Next]_vars

\* what a call made on one component alone leaves untouched
harnessFrame == UNCHANGED << cfgVars, schedVars, plVars, inflight, out >>

\* ------------------------------------------------- classifier specification
\* the errors handed to ErrorHandler.isRecoverable: every combination of a
\* low-level code, a statusCode (0: the field is absent) and the isHttpError marker
ErrorCodes == recoverableErrors \cup {"none", "EPIPE"}
ErrorStatuses == {0, 200, 404, 429, 499, 500, 503, 599, 600}
ErrorSpace == { Err("e", c, st, h) : c \in ErrorCodes, st \in ErrorStatuses, h \in BOOLEAN }

InitClassifier ==
  /\ variant = "async"
  /\ sourcesConfig = << >>
  /\ schedRunning = FALSE
  /\ strategies = << >>
  /\ timers = [ n \in Sources |-> 0 ]
  /\ armed = {}
  /\ startsPending = {}
  /\ stopsPending = "none"
  /\ nextGen = 0
  /\ isConnected = FALSE
  /\ producer = "null"
  /\ isRunning = [ p \in Instances |-> FALSE ]
  /\ lastExecution = [ p \in Instances |-> 0 ]
  /\ lastError = [ p \in Instances |-> NullInfo ]
  /\ executionCount = [ p \in Instances |-> 0 ]
  /\ inflight = [ p \in Instances |-> << >> ]
  /\ out = NoResult
  /\ clsError = Err("none", "none", 0, FALSE)
  /\ clsResult = "none"
  /\ http = NoRequest
  /\ pub = NoCall
  /\ fac = NoFactoryCall
  /\ eh = NoHandleCall
  /\ tmr = NoTimers
  /\ app = NotLaunched
  /\ cw = NoExtraction

\* isRecoverable(error) on an arbitrary error
Classify(error) ==
  /\ clsError' = error
  /\ clsResult' = IF isRecoverable(error) THEN "true" ELSE "false"
  /\ UNCHANGED << cfgVars, schedVars, pubVars, plVars, inflight, out, http, pub, auxVars >>

\* isRecoverable(createHttpError(statusCode, message))
ClassifyHttpError(statusCode) ==
  /\ clsError' = createHttpError(statusCode, "http")
  /\ clsResult' = IF isRecoverable(createHttpError(statusCode, "http")) THEN "true" ELSE "false"
  /\ UNCHANGED << cfgVars, schedVars, pubVars, plVars, inflight, out, http, pub, auxVars >>

\* the state of a sink: not configured, working, or throwing when called
SinkStates == {"absent", "ok", "throws"}

\* handle(error, context, extra) with the two sinks in the given states: a
\* sink is called when it is enabled and initialised
Handle(error, sentry, metricsCounter) ==
  /\ LET h == handle(error, "General", sentry = "throws" \/ metricsCounter = "throws") IN
     eh' = [ op |-> "handle", sentry |-> sentry, metricsCounter |-> metricsCounter,
             threw |-> h.threw,
             returned |-> IF h.threw THEN NullInfo ELSE h.info ]
  /\ harnessFrame /\ UNCHANGED << pubVars, clsError, clsResult, http, pub, fac, tmr, app, cw >>

NextClassifier ==
  \/ \E e \in ErrorSpace : Classify(e)
  \/ \E st \in ErrorStatuses \ {0} : ClassifyHttpError(st)
  \/ \E e \in ExtractErrors \cup {TransformError, NotConnectedError}, se \in SinkStates, mc \in SinkStates :
       Handle(e, se, mc)

SpecClassifier == InitClassifier /\ [][NextClassifier]_vars

\* -------------------------------------------------- transport specification

\* request(config) is subscribed: the first axios call
Request(maxRetries) ==
  /\ http.pc \in {"idle", "ok", "failed"}
  /\ http' = [ NoRequest EXCEPT !.pc = "attempt", !.maxRetries = maxRetries, !.attempts = 1 ]
  /\ harnessFrame /\ UNCHANGED << pubVars, clsError, clsResult, pub, auxVars >>

\* axios resolves: map(response => response.data) emits
AttemptSucceeds ==
  /\ http.pc = "attempt"
  /\ http' = [ http EXCEPT !.pc = "ok" ]
  /\ harnessFrame /\ UNCHANGED << pubVars, clsError, clsResult, pub, auxVars >>

\* axios rejects.  retry({count, delay}): while fewer than count retries were
\* made, delay(error, retryCount) decides -- timer(backoff) resubscribes,
\* throwError hands the error on; otherwise the error is handed on.  catchError
\* wraps what is handed on.
AttemptFails(error) ==
  /\ http.pc = "attempt"
  /\ IF http.soFar < http.maxRetries /\ shouldRetry(error, http.soFar + 1, http.maxRetries)
       THEN http' = [ http EXCEPT !.pc = "waiting", !.soFar = @ + 1,
                                  !.errors = Append(@, error),
                                  !.delays = Append(@, calculateBackoff(http.soFar + 1 - 1)) ]
       ELSE http' = [ http EXCEPT !.pc = "failed",
                                  !.soFar = IF @ < http.maxRetries THEN @ + 1 ELSE @,
                                  !.errors = Append(@, error),
                                  !.surfaced = surface(error) ]
  /\ harnessFrame /\ UNCHANGED << pubVars, clsError, clsResult, pub, auxVars >>

\* the timer of the backoff fires: the source is subscribed again
RetryTimerFires ==
  /\ http.pc = "waiting"
  /\ http' = [ http EXCEPT !.pc = "attempt", !.attempts = @ + 1 ]
  /\ harnessFrame /\ UNCHANGED << pubVars, clsError, clsResult, pub, auxVars >>

NextTransport ==
  \/ \E mr \in RetryCaps : Request(mr)
  \/ AttemptSucceeds
  \/ \E e \in AxiosErrors : AttemptFails(e)
  \/ RetryTimerFires

SpecTransport == InitClassifier /\ [][NextTransport]_vars

\* -------------------------------------------------- publisher specification
\* A KafkaPublisher on its own.  The caller subscribes every Observable the
\* publisher returns; one call is made at a time.
MetadataSources == {"", "crm"}

pubIdle == pub.pc /= "pending"

\* connect(), subscribed
PubConnect ==
  /\ pubIdle
  /\ IF connect(isConnected).returned = "noop"
       THEN /\ pub' = [ NoCall EXCEPT !.op = "connect", !.pc = "done", !.returned = "noop",
                                      !.connectedBefore = isConnected ]
            /\ producer' = producer
       ELSE /\ pub' = [ NoCall EXCEPT !.op = "connect", !.pc = "pending", !.returned = "chain",
                                      !.connectedBefore = isConnected,
                                      !.built = TRUE, !.brokerCalls = 1 ]
            /\ producer' = "built"
  /\ isConnected' = isConnected
  /\ harnessFrame /\ UNCHANGED << clsError, clsResult, http, auxVars >>

\* producer.connect() resolves: tap(() => this.isConnected = true)
PubConnectResolves ==
  /\ pub.op = "connect" /\ pub.pc = "pending"
  /\ isConnected' = TRUE
  /\ pub' = [ pub EXCEPT !.pc = "done" ]
  /\ harnessFrame /\ UNCHANGED << producer, clsError, clsResult, http, auxVars >>

\* producer.connect() rejects: catchError logs and rethrows
PubConnectRejects ==
  /\ pub.op = "connect" /\ pub.pc = "pending"
  /\ pub' = [ pub EXCEPT !.pc = "failed" ]
  /\ harnessFrame /\ UNCHANGED << pubVars, clsError, clsResult, http, auxVars >>

\* disconnect(), subscribed
PubDisconnect ==
  /\ pubIdle
  /\ IF disconnect(isConnected).returned = "noop"
       THEN pub' = [ NoCall EXCEPT !.op = "disconnect", !.pc = "done", !.returned = "noop",
                                   !.connectedBefore = isConnected ]
       ELSE pub' = [ NoCall EXCEPT !.op = "disconnect", !.pc = "pending", !.returned = "chain",
                                   !.connectedBefore = isConnected, !.brokerCalls = 1 ]
  /\ harnessFrame /\ UNCHANGED << pubVars, clsError, clsResult, http, auxVars >>

\* producer.disconnect() resolves: tap(() => this.isConnected = false)
PubDisconnectResolves ==
  /\ pub.op = "disconnect" /\ pub.pc = "pending"
  /\ isConnected' = FALSE
  /\ pub' = [ pub EXCEPT !.pc = "done" ]
  /\ harnessFrame /\ UNCHANGED << producer, clsError, clsResult, http, auxVars >>

\* producer.disconnect() rejects: catchError logs and rethrows
PubDisconnectRejects ==
  /\ pub.op = "disconnect" /\ pub.pc = "pending"
  /\ pub' = [ pub EXCEPT !.pc = "failed" ]
  /\ harnessFrame /\ UNCHANGED << pubVars, clsError, clsResult, http, auxVars >>

\* publish(topic, data, metadata), subscribed.  useSchemaRegistry and
\* encodeFails are the formatter's configuration and the registry's behaviour;
\* fallback: formatForKafka resolved a registry failure to the plain envelope.
PubPublish(data, useSchemaRegistry, encodeFails) ==
  /\ pubIdle
  /\ LET r == publish(isConnected, data)
         f == formatForKafka("item", useSchemaRegistry, encodeFails) IN
     pub' = [ NoCall EXCEPT !.op = "publish",
                            !.pc = IF r.returned \in {"throwError", "threw"} THEN "failed" ELSE "done",
                            !.connectedBefore = isConnected,
                            !.returned = r.returned,
                            !.items = recordCount(data),
                            !.brokerCalls = IF r.returned = "send" THEN 1 ELSE 0,
                            !.sent = r.sent,
                            !.useSchemaRegistry = useSchemaRegistry,
                            !.encodeFails = encodeFails,
                            !.fallback = isConnected /\ useSchemaRegistry /\ ~f.value.encoded ]
  /\ harnessFrame /\ UNCHANGED << pubVars, clsError, clsResult, http, auxVars >>

\* generateKey(item, metadata)
PubGenerateKey(item, source) ==
  /\ pubIdle
  /\ pub' = [ NoCall EXCEPT !.op = "generateKey", !.pc = "done",
                            !.connectedBefore = isConnected,
                            !.item = item, !.source = source,
                            !.key = generateKey(item, source) ]
  /\ harnessFrame /\ UNCHANGED << pubVars, clsError, clsResult, http, auxVars >>

NextPublisher ==
  \/ PubConnect
  \/ PubConnectResolves
  \/ PubConnectRejects
  \/ PubDisconnect
  \/ PubDisconnectResolves
  \/ PubDisconnectRejects
  \/ \E d \in RawData \ {NullData}, sr \in BOOLEAN, ef \in BOOLEAN : PubPublish(d, sr, ef)
  \/ \E item \in Items, source \in MetadataSources : PubGenerateKey(item, source)

SpecPublisher == InitClassifier /\ [][NextPublisher]_vars

\* ---------------------------------------------------- factory specification
\* the entries a configs array is made of: a resolving entry per source, an
\* unregistered type, a missing type, a null entry
ConfigEntries ==
  { [name |-> "s1", type |-> "chatwoot"], [name |-> "s2", type |-> "smartOLT"],
    [name |-> "s1", type |-> "unknown"], [name |-> "s2", type |-> "none"], NullConfig }

RECURSIVE SeqsUpTo(_, _)
SeqsUpTo(S, n) ==
  IF n = 0 THEN { << >> }
  ELSE LET shorter == SeqsUpTo(S, n - 1) IN
       shorter \cup { Append(q, x) : q \in shorter, x \in S }

\* createStrategies(configs): the map callback runs entry by entry; an
\* exception leaving its catch block ends the call
CreateStrategies(configs) ==
  /\ fac' = [ op |-> "createStrategies", configs |-> configs,
              raised |-> createStrategiesRaises(configs),
              created |-> IF createStrategiesRaises(configs) THEN << >>
                          ELSE createStrategies(configs, 1) ]
  /\ harnessFrame /\ UNCHANGED << pubVars, clsError, clsResult, http, pub, eh, tmr, app, cw >>

NextFactory == \E configs \in SeqsUpTo(ConfigEntries, MaxConfigs) : CreateStrategies(configs)

SpecFactory == InitClassifier /\ [][NextFactory]_vars

\* ---------------------------------------------------- trigger specification
\* scheduleStrategy on its own, with a clock.  Time passes by Elapse and by
\* the firing of the timer that is due first.
ConfiguredIntervals == {0, 30000, 45000}
ElapseSteps == {15000}

liveTimers == { n \in Sources : tmr.period[n] /= 0 }

\* scheduleStrategy(strategy): executeStrategy at once, then setInterval
ScheduleStrategy(name, configured) ==
  /\ name \notin liveTimers
  /\ tmr.now <= MaxTime
  /\ tmr' = [ tmr EXCEPT !.configured[name] = configured,
                         !.period[name] = intervalOf(configured),
                         !.at[name] = tmr.now,
                         !.next[name] = tmr.now + intervalOf(configured),
                         !.calls[name] = << tmr.now >> ]
  /\ harnessFrame /\ UNCHANGED << pubVars, clsError, clsResult, http, pub, fac, eh, app, cw >>

\* time passes and no timer is overdue
Elapse(d) ==
  /\ tmr.now + d <= MaxTime
  /\ \A n \in liveTimers : tmr.now + d <= tmr.next[n]
  /\ tmr' = [ tmr EXCEPT !.now = @ + d ]
  /\ harnessFrame /\ UNCHANGED << pubVars, clsError, clsResult, http, pub, fac, eh, app, cw >>

\* the setInterval callback of `name` runs: this.executeStrategy(strategy)
TimerFires(name) ==
  /\ name \in liveTimers
  /\ tmr.next[name] <= MaxTime
  /\ \A n \in liveTimers : tmr.next[name] <= tmr.next[n]
  /\ tmr' = [ tmr EXCEPT !.now = tmr.next[name],
                         !.next[name] = @ + tmr.period[name],
                         !.calls[name] = Append(@, tmr.next[name]) ]
  /\ harnessFrame /\ UNCHANGED << pubVars, clsError, clsResult, http, pub, fac, eh, app, cw >>

NextTrigger ==
  \/ \E n \in Sources, c \in ConfiguredIntervals : ScheduleStrategy(n, c)
  \/ \E d \in ElapseSteps : Elapse(d)
  \/ \E n \in Sources : TimerFires(n)

SpecTrigger == InitClassifier /\ [][NextTrigger]_vars

\* ---------------------------------------------------- process specification
\* The process of app.js: main, the callbacks it subscribes and the signal
\* handlers, with the timers the scheduler sets and clears on its behalf.
appFrame == harnessFrame /\ UNCHANGED << pubVars, clsError, clsResult, http, pub, fac, eh, cw >>

\* start() schedules every created strategy (no interval configured)
RECURSIVE scheduleAll(_, _)
scheduleAll(t, created) ==
  IF created = << >> THEN t
  ELSE LET name == created[1][1] IN
       scheduleAll([ t EXCEPT !.configured[name] = 0,
                              !.period[name] = intervalOf(0),
                              !.at[name] = t.now,
                              !.next[name] = t.now + intervalOf(0),
                              !.calls[name] = << t.now >> ],
                   Tail(created))

\* stop(): clearInterval on every timer; also what the end of the process does
clearAll(t) == [ t EXCEPT !.period = [ n \in Sources |-> 0 ] ]

\* main(): new Scheduler(config.sources); scheduler.start().subscribe({...});
\* process.on(SIGINT / SIGTERM).  A TypeError raised by the .subscribe call
\* leaves main uncaught: the process exits with code 1, no handler registered.
AppMain ==
  /\ app.pc = "notLaunched"
  /\ IF hasSubscribe(schedulerReturns)
       THEN app' = [ app EXCEPT !.pc = "starting", !.subscribed = TRUE, !.handlers = TRUE ]
       ELSE app' = [ app EXCEPT !.pc = "exited", !.exitCode = 1, !.cause = "uncaught" ]
  /\ tmr' = tmr
  /\ appFrame

\* start() emits: the strategies are scheduled, the next callback logs that
\* the service runs
AppStartEmits ==
  /\ app.pc = "starting" /\ app.subscribed
  /\ Len(createStrategies(sourcesConfig, 1)) > 0
  /\ app' = [ app EXCEPT !.pc = "serving" ]
  /\ tmr' = scheduleAll(tmr, createStrategies(sourcesConfig, 1))
  /\ appFrame

\* start() errors (broker connect failed, or no pipeline was created): the
\* error callback calls process.exit(1)
AppStartErrors ==
  /\ app.pc = "starting" /\ app.subscribed
  /\ app' = [ app EXCEPT !.pc = "exited", !.exitCode = 1, !.cause = "startFailed" ]
  /\ tmr' = tmr
  /\ appFrame

\* a termination signal arrives and its handler runs handleExit:
\* subscription.unsubscribe(); scheduler.stop().subscribe({complete, error}).
\* stop() on a scheduler that is not running completes at once; on a running
\* one it clears the timers and waits for the broker disconnect.
HandleExit(signal) ==
  /\ app.handlers
  /\ app.pc \in {"starting", "serving"}
  /\ IF ~hasSubscribe(schedulerReturns)
       THEN app' = [ app EXCEPT !.pc = "exited", !.exitCode = 1, !.cause = "uncaught",
                               !.signal = signal, !.subscribed = FALSE, !.stopCalled = TRUE ]
       ELSE IF app.pc = "starting"
         THEN app' = [ app EXCEPT !.pc = "exited", !.exitCode = 0, !.cause = "signal",
                                 !.signal = signal, !.subscribed = FALSE,
                                 !.stopCalled = TRUE, !.stopFinished = TRUE ]
         ELSE app' = [ app EXCEPT !.pc = "stopping", !.signal = signal, !.subscribed = FALSE,
                                 !.stopCalled = TRUE ]
  /\ tmr' = clearAll(tmr)
  /\ appFrame

\* stop() completes: complete: () => process.exit(0)
AppStopCompletes ==
  /\ app.pc = "stopping"
  /\ app' = [ app EXCEPT !.pc = "exited", !.exitCode = 0, !.cause = "signal",
                         !.stopFinished = TRUE ]
  /\ tmr' = tmr
  /\ appFrame

\* stop() errors: error: () => process.exit(1)
AppStopErrors ==
  /\ app.pc = "stopping"
  /\ app' = [ app EXCEPT !.pc = "exited", !.exitCode = 1, !.cause = "signal",
                         !.stopFinished = TRUE, !.stopFailed = TRUE ]
  /\ tmr' = tmr
  /\ appFrame

\* time passes in a live process
AppElapse(d) == app.pc \notin {"notLaunched", "exited"} /\ Elapse(d)

\* a timer of the live process fires
AppTimerFires(name) == app.pc = "serving" /\ TimerFires(name)

NextApp ==
  \/ AppMain
  \/ AppStartEmits
  \/ AppStartErrors
  \/ \E sig \in Signals : HandleExit(sig)
  \/ AppStopCompletes
  \/ AppStopErrors
  \/ \E d \in ElapseSteps : AppElapse(d)
  \/ \E n \in Sources : AppTimerFires(n)

SpecApp == Init /\ [][NextApp]_vars

\* --------------------------------------------------- chatwoot specification
\* One ChatwootStrategy with a clock in milliseconds.  Conversations appear
\* in the account; execute() runs extract() and then transform() and
\* publish(), whose outcome is drawn.
ClockSteps == {500}

\* a conversation is opened in the account now; Chatwoot reports its
\* created_at in whole unix seconds
ConversationCreated ==
  /\ cw.now <= MaxClock
  /\ \A c \in cw.conversations : c.id /= cw.now
  /\ cw' = [ cw EXCEPT !.conversations = @ \cup { [ id |-> cw.now, created_at |-> cw.now \div 1000 ] } ]
  /\ harnessFrame /\ UNCHANGED << pubVars, clsError, clsResult, http, pub, fac, eh, tmr, app >>

\* time passes
ClockElapse(d) ==
  /\ cw.now + d <= MaxClock
  /\ cw' = [ cw EXCEPT !.now = @ + d ]
  /\ harnessFrame /\ UNCHANGED << pubVars, clsError, clsResult, http, pub, fac, eh, tmr, app >>

\* execute() begins and extract() resolves: every page is fetched and
\* filtered; when something is new, lastExecutionTime = new Date().  An empty
\* result ends the run with success.
ChatwootExtract ==
  /\ cw.pc = "idle"
  /\ LET new == filterNewConversations(cw.conversations, cw.lastExecutionTime) IN
     cw' = [ cw EXCEPT !.extracted = new,
                       !.lastExecutionTime = IF new /= {} THEN [ set |-> TRUE, at |-> cw.now ] ELSE @,
                       !.pc = IF new /= {} THEN "running" ELSE "idle" ]
  /\ harnessFrame /\ UNCHANGED << pubVars, clsError, clsResult, http, pub, fac, eh, tmr, app >>

\* transform() or publish() fails: execute() records the error and returns
\* {success: false}
ChatwootRunFails ==
  /\ cw.pc = "running"
  /\ cw' = [ cw EXCEPT !.pc = "idle", !.extracted = {},
                       !.unpublished = @ \cup cw.extracted ]
  /\ harnessFrame /\ UNCHANGED << pubVars, clsError, clsResult, http, pub, fac, eh, tmr, app >>

\* transform() and publish() succeed
ChatwootRunSucceeds ==
  /\ cw.pc = "running"
  /\ cw' = [ cw EXCEPT !.pc = "idle", !.extracted = {},
                       !.published = @ \cup cw.extracted,
                       !.unpublished = @ \ cw.extracted ]
  /\ harnessFrame /\ UNCHANGED << pubVars, clsError, clsResult, http, pub, fac, eh, tmr, app >>

NextChatwoot ==
  \/ ConversationCreated
  \/ \E d \in ClockSteps : ClockElapse(d)
  \/ ChatwootExtract
  \/ ChatwootRunFails
  \/ ChatwootRunSucceeds

SpecChatwoot == InitClassifier /\ [][NextChatwoot]_vars

\* ---------------------------------------------------- restart specification
\* The scheduler with at most one resolving source, where start() may go past its
\* guard MaxRestarts times: a start() after a stop(), or two start() calls
\* overlapping while the first is suspended at its await.
RestartConfigs ==
  { << [name |-> "s1", type |-> "chatwoot"], [name |-> "s2", type |-> "unknown"] >>,
    << [name |-> "s1", type |-> "unknown"],  [name |-> "s2", type |-> "none"] >> }

InitRestart == Init /\ sourcesConfig \in RestartConfigs

Restart == StartCallUpTo(MaxRestarts)

NextRestart ==
  \/ Restart
  \/ Steps

SpecRestart == InitRestart /\ [][NextRestart]_vars

\* ================================================================== claims

\* C1: for every pipeline instance, under every interleaving of ticks and manual
\* calls, at most one execute() call is past the re-entrancy guard at any time.
C1_SingleFlight == \A p \in Instances : Len(inflight[p]) <= 1

\* C1 witness: a manual call arrived while the call of a tick was in flight on
\* the same pipeline, and was turned away.
C1_ManualDuringTick ==
  /\ out.op = "execute" /\ out.kind = "skipped" /\ out.origin = "manual"
  /\ Len(inflight[out.inst]) = 1
  /\ inflight[out.inst][1].origin = "tick"

\* C2: a step that returns {skipped: true} happens only while the pipeline is
\* running, invokes neither extract(), transform() nor publish(), and leaves
\* isRunning, lastExecution, lastError, executionCount and the call in flight
\* unchanged.
C2_SkippedFrame ==
  [][ (out'.op = "execute" /\ out'.kind = "skipped") =>
        /\ isRunning[out'.inst]
        /\ out'.extracted = NoData
        /\ ~out'.calledTransform
        /\ ~out'.calledPublish
        /\ UNCHANGED << isRunning, lastExecution, lastError, executionCount, inflight >> ]_vars

\* C2 witness: a tick was skipped on a pipeline whose earlier call is still
\* suspended in extract().
C2_TickSkipped ==
  /\ out.op = "execute" /\ out.kind = "skipped" /\ out.origin = "tick"
  /\ isRunning[out.inst]
  /\ Len(inflight[out.inst]) = 1
  /\ inflight[out.inst][1].pc = "extract"

\* C3 (as stated): execute() never raises -- every call resolves to a skipped,
\* success or failure result.
C3_ExecuteNeverRaises == out.op = "execute" => out.kind \in {"skipped", "success", "failure"}

\* C4 (as stated): executionCount changes only by +1, and only in a step where
\* execute() returns success for data that was sent and acknowledged.
C4_CountOnlyOnPublish ==
  [][ \A p \in Instances :
        executionCount'[p] /= executionCount[p] =>
          /\ executionCount'[p] = executionCount[p] + 1
          /\ out'.op = "execute" /\ out'.inst = p /\ out'.kind = "success"
          /\ out'.recordsProcessed > 0
          /\ out'.acked ]_vars

\* C5: when extract() hands back null or an empty list, the step returns
\* {success: true, recordsProcessed: 0} and calls neither transform() nor publish().
C5_EmptyExtract ==
  (out.extracted.kind = "null" \/ (out.extracted.kind = "list" /\ out.extracted.len = 0)) =>
    /\ out.op = "execute" /\ out.kind = "success"
    /\ out.recordsProcessed = 0
    /\ ~out.calledTransform
    /\ ~out.calledPublish
    /\ out.sent = 0

\* C5 witness: extract() handed back an empty list and the call returned success.
C5_EmptyListSuccess ==
  /\ out.extracted.kind = "list" /\ out.extracted.len = 0
  /\ out.op = "execute" /\ out.kind = "success"

\* C6 (as stated): a success result with recordsProcessed = n > 0 is returned
\* only when a send of those n records was issued and acknowledged in that call.
C6_NoSilentFailure ==
  (out.op = "execute" /\ out.kind = "success" /\ out.recordsProcessed > 0) =>
    (out.acked /\ out.sent = out.recordsProcessed)

\* C7: publish() invoked while the publisher is not connected returns the
\* not-connected failure and hands nothing to producer.send; a call that
\* observes it ends as a failure carrying that error.
C7_PublishNotConnected ==
  (out.calledPublish /\ out.publishAt = "disconnected") =>
    /\ out.publishReturned = "throwError"
    /\ out.sent = 0
    /\ ~out.acked
    /\ out.op = "execute" => /\ out.kind \in {"failure", "raised"}
                             /\ out.kind = "failure" => out.error.message = NotConnectedError.message

\* C7 witness: an execute() call published while disconnected and ended as a
\* failure with the not-connected error.
C7_NotConnectedFailure ==
  /\ out.op = "execute" /\ out.kind = "failure"
  /\ out.calledPublish /\ out.publishAt = "disconnected"
  /\ out.error.message = NotConnectedError.message

\* C8: no outcome of execute() cancels a periodic trigger: a live trigger goes
\* away only in a step of stop() or pauseStrategy() that removes its timers entry.
C8_ScheduleNeverDies ==
  [][ /\ \A p \in Instances :
           (p \in armed /\ p \notin armed') =>
             /\ timers[p[1]] = p[2]
             /\ timers'[p[1]] = 0
             /\ out'.op \in {"none", "pauseStrategy"}
      /\ out'.op = "execute" => (armed' = armed /\ timers' = timers) ]_vars

\* C8 witness: after a recorded failure of a pipeline, its trigger fired again
\* and the call of that tick is in flight.
C8_TickAfterFailure ==
  \E p \in armed :
    /\ lastError[p] /= NullInfo
    /\ Len(inflight[p]) = 1
    /\ inflight[p][1].origin = "tick"

\* C9: a failing execute() of one pipeline leaves the run state and the calls
\* of every other pipeline, its own lastExecution and executionCount, all
\* triggers and the scheduler's running flag unchanged, and nothing leaves the
\* scheduler tick.
C9_FailureIsolation ==
  [][ (out'.op = "execute" /\ out'.kind \in {"failure", "raised"}) =>
        /\ \A q \in Instances \ {out'.inst} :
             /\ isRunning'[q] = isRunning[q]
             /\ lastExecution'[q] = lastExecution[q]
             /\ lastError'[q] = lastError[q]
             /\ executionCount'[q] = executionCount[q]
             /\ inflight'[q] = inflight[q]
        /\ lastExecution'[out'.inst] = lastExecution[out'.inst]
        /\ executionCount'[out'.inst] = executionCount[out'.inst]
        /\ armed' = armed /\ timers' = timers
        /\ schedRunning' = schedRunning
        /\ out'.origin = "tick" => ~out'.escaped ]_vars

\* C9 witness: the handling of a failure raised inside a tick while another
\* pipeline was running under a live trigger.
C9_RaisedBesideRunningPipeline ==
  /\ out.op = "execute" /\ out.kind = "raised" /\ out.origin = "tick"
  /\ \E q \in armed \ {out.inst} : isRunning[q]

\* C10 (as stated): recoverable iff the code is in the transient-network set,
\* or the status is in [500,599], or the status is 429.
C10_ClassifierIff ==
  clsResult /= "none" =>
    (clsResult = "true" <=>
       \/ clsError.code \in {"ECONNRESET", "ETIMEDOUT", "ENOTFOUND", "EAI_AGAIN", "ECONNREFUSED"}
       \/ (clsError.statusCode >= 500 /\ clsError.statusCode <= 599)
       \/ clsError.statusCode = 429)

\* C10 (amended): recoverable iff the code is in the transient-network set, or
\* the error is marked isHttpError and its status is in [500,599], or the
\* status is 429.
C10_ClassifierIffMarked ==
  clsResult /= "none" =>
    (clsResult = "true" <=>
       \/ clsError.code \in {"ECONNRESET", "ETIMEDOUT", "ENOTFOUND", "EAI_AGAIN", "ECONNREFUSED"}
       \/ (clsError.isHttpError /\ clsError.statusCode >= 500 /\ clsError.statusCode <= 599)
       \/ clsError.statusCode = 429)

\* C10 witness: a server error built by createHttpError (marked, status 503,
\* no code) was classified recoverable.
C10_MarkedServerErrorRecoverable ==
  /\ clsResult = "true"
  /\ clsError.statusCode = 503 /\ clsError.code = "none" /\ clsError.isHttpError

\* C11: the transport makes at most maxRetries attempts after the first one,
\* and the wait before retry n (counted from 0) is exactly retryDelay * 2^n.
C11_BackoffExact ==
  /\ Len(http.delays) <= http.maxRetries
  /\ http.attempts <= http.maxRetries + 1
  /\ \A k \in 1..Len(http.delays) : http.delays[k] = retryDelay * 2^(k - 1)

\* C11 witness: a request went through three retries, the third after 4000 ms.
C11_ThirdRetryWaited ==
  /\ Len(http.delays) = 3
  /\ http.delays[3] = 4000
  /\ http.attempts = 4

\* C12 (as stated): with the default cap, a request whose every attempt fails
\* with an error the classifier calls recoverable is attempted exactly cap
\* times before the error is surfaced.
C12_RetriesUpToCap ==
  ( /\ http.pc = "failed"
    /\ http.maxRetries = maxRetriesDefault
    /\ \A k \in 1..Len(http.errors) : isRecoverable(http.errors[k]) )
  => http.attempts = http.maxRetries

\* C13: a request whose first attempt fails with a 4xx status other than 429 is
\* not retried: one attempt, no wait, the error is surfaced at once and the
\* surfaced error is classified non-recoverable.
C13_PermanentNotRetried ==
  ( /\ Len(http.errors) >= 1
    /\ http.errors[1].responseStatus >= 400
    /\ http.errors[1].responseStatus <= 499
    /\ http.errors[1].responseStatus /= 429 )
  => /\ http.pc = "failed"
     /\ http.attempts = 1
     /\ http.delays = << >>
     /\ ~isRecoverable(http.surfaced)

\* C13 witness: under the default cap the first attempt got a 404 and the
\* request failed.
C13_NotFoundSurfaced ==
  /\ http.pc = "failed"
  /\ http.maxRetries = maxRetriesDefault
  /\ http.errors[1].responseStatus = 404

\* C14: every failure request() surfaces is an error marked isHttpError whose
\* statusCode is the response status of the last failed attempt, or 500 when
\* there was no response, and whose originalError is the error of that attempt.
C14_NormalizedShape ==
  http.pc = "failed" =>
    LET last == http.errors[Len(http.errors)] IN
    /\ http.surfaced.isHttpError
    /\ http.surfaced.statusCode = IF last.responseStatus /= 0 THEN last.responseStatus ELSE 500
    /\ http.surfaced.originalError = last
    /\ http.surfaced.code = "none"

\* C14 witness: a request failed after a retry on a response with status 503.
C14_ServerErrorSurfaced ==
  /\ http.pc = "failed"
  /\ http.attempts >= 2
  /\ http.surfaced.statusCode = 503
  /\ http.surfaced.originalError.code = "ERR_BAD_RESPONSE"

\* C15 (as stated): the partition key is the string form of the item's id when
\* the item has an id, else the string form of its _id when it has one, else
\* metadata.source when set, else "default".
C15_KeyFromId ==
  pub.op = "generateKey" =>
    pub.key = IF pub.item.id /= Absent THEN String(pub.item.id)
              ELSE IF pub.item._id /= Absent THEN String(pub.item._id)
              ELSE IF pub.source /= "" THEN pub.source ELSE "default"

\* C16 (as stated): a publish() of at least one item made while connected
\* results in exactly one broker send carrying one record per item.
C16_OneSendPerPublish ==
  (pub.op = "publish" /\ pub.connectedBefore /\ pub.items >= 1)
  => /\ pub.returned = "send"
     /\ pub.brokerCalls = 1
     /\ pub.sent = pub.items

\* C17 (as stated): when the schema registry is in use and encoding fails, a
\* publish() made while connected does not fail and every item is sent, with
\* the unencoded envelope.
C17_EncodingFallbackSent ==
  (pub.op = "publish" /\ pub.connectedBefore /\ pub.items >= 1
     /\ pub.useSchemaRegistry /\ pub.encodeFails)
  => /\ pub.pc /= "failed"
     /\ pub.fallback
     /\ pub.sent = pub.items

\* C18: connect() on a connected publisher builds no client, makes no broker
\* connect and leaves the publisher connected; disconnect() on a publisher that
\* is not connected (never connected included) makes no broker call and does
\* not fail.
C18_Idempotent ==
  /\ (pub.op = "connect" /\ pub.connectedBefore)
       => /\ ~pub.built
          /\ pub.brokerCalls = 0
          /\ pub.pc = "done"
          /\ isConnected
  /\ (pub.op = "disconnect" /\ ~pub.connectedBefore)
       => /\ pub.brokerCalls = 0
          /\ pub.pc = "done"
          /\ ~isConnected

\* C18 witness: connect() was called on a connected publisher.
C18_ConnectWhileConnected ==
  pub.op = "connect" /\ pub.connectedBefore /\ pub.pc = "done"

\* C19: a start() made while the scheduler is running returns at once and
\* changes nothing: no broker connect, no pipeline created, no trigger
\* started, no execution begun; pipelines and live triggers are as before.
\* A start() goes past its guard only when the scheduler is not running.
C19_StartWhileRunningNoop ==
  [][ /\ (out'.op = "start" /\ out'.kind = "noop")
           => /\ schedRunning
              /\ UNCHANGED << schedVars, pubVars, plVars, inflight >>
      /\ nextGen' /= nextGen => ~schedRunning ]_vars

\* C19 witness: start() returned as a no-op while a trigger was live.
C19_StartNoopWhileArmed ==
  out.op = "start" /\ out.kind = "noop" /\ schedRunning /\ armed /= {}

\* C20: a start() that fails, on the broker connect or for lack of any
\* pipeline, raises to its caller, starts no trigger, begins no execution and
\* does not mark the scheduler running; after the failure of the only start()
\* made so far no trigger is live, no execute() was invoked and the scheduler is
\* not running.
C20_FailedStartLeavesNothing ==
  [][ (out'.op = "start" /\ out'.kind = "threw")
        => /\ out'.escaped
           /\ UNCHANGED << schedRunning, armed, timers, plVars, inflight >>
           /\ nextGen' = 1
                => /\ ~schedRunning'
                   /\ armed' = {}
                   /\ \A p \in Instances : inflight'[p] = << >> /\ ~isRunning'[p]
                                              /\ executionCount'[p] = 0 ]_vars

\* C20 witness: start() raised because the broker connect failed.
C20_StartRaisedOnConnect ==
  /\ out.op = "start" /\ out.kind = "threw"
  /\ producer = "built" /\ ~isConnected
  /\ strategies = << >>

\* C21 (as stated): createStrategies never raises and returns, in input order,
\* one pipeline for each entry that resolves; every other entry (a null entry
\* included) is skipped.
C21_SkipsFailingEntries ==
  fac.op = "createStrategies" =>
    /\ ~fac.raised
    /\ fac.created =
         LET good == SelectSeq(fac.configs, LAMBDA c : c.type \in {"chatwoot", "smartOLT"}) IN
         [ k \in 1..Len(good) |-> << good[k].name, 1 >> ]

\* C22: a scheduled pipeline has its execute() invoked at the time it is
\* scheduled and then every config.interval ms (every 60000 ms when no
\* interval is configured), whatever the other pipeline's trigger does: the
\* k-th invocation is at the scheduling time plus (k - 1) periods, and no
\* invocation is overdue.
C22_ImmediateThenPeriodic ==
  \A n \in Sources :
    tmr.calls[n] /= << >> =>
      LET period == IF tmr.configured[n] = 0 THEN 60000 ELSE tmr.configured[n] IN
      /\ \A k \in 1..Len(tmr.calls[n]) : tmr.calls[n][k] = tmr.at[n] + (k - 1) * period
      /\ tmr.next[n] = tmr.at[n] + Len(tmr.calls[n]) * period
      /\ tmr.now <= tmr.next[n]

\* C22 witness: a pipeline without a configured interval ran at 0, 60000 and
\* 120000 ms while the other one, on a 45000 ms interval, ran on its own beat.
C22_DefaultBesideConfigured ==
  /\ tmr.configured["s1"] = 0
  /\ tmr.calls["s1"] = << 0, 60000, 120000 >>
  /\ tmr.configured["s2"] = 45000
  /\ Len(tmr.calls["s2"]) >= 2

\* C27 (as stated): handle() returns the ErrorInfo and never raises, whatever
\* the state of the reporting and metrics sinks.
C27_HandleNeverRaises ==
  eh.op = "handle" =>
    /\ ~eh.threw
    /\ eh.returned /= NullInfo

\* C28 (as stated): the process ends only through a failed start or through a
\* termination signal whose handler called stop(), and then only after stop()
\* finished, with code 0 exactly when stop() completed.
C28_ExitOnlyAfterStop ==
  app.pc = "exited" =>
    \/ app.cause = "startFailed" /\ app.exitCode = 1
    \/ /\ app.signal /= "none"
       /\ app.stopCalled
       /\ app.stopFinished
       /\ (app.exitCode = 0) = ~app.stopFailed

C24_ManualOnce ==
  [][ /\ (out'.op = "executeManually" /\ out'.kind = "threw")
           => /\ out'.escaped
              /\ \E n \in Sources : find(n) = NoInst
              /\ UNCHANGED << schedVars, pubVars, plVars, inflight >>
      /\ (out'.op = "execute" /\ out'.origin = "manual" /\ out'.kind = "skipped")
           => /\ isRunning[out'.inst]
              /\ out'.inst = find(out'.inst[1])
              /\ UNCHANGED << schedVars, pubVars, plVars, inflight >>
      /\ \A p \in Instances :
           LET manual(calls) == Len(SelectSeq(calls, LAMBDA c : c.origin = "manual")) IN
           manual(inflight'[p]) > manual(inflight[p])
             => /\ manual(inflight'[p]) = manual(inflight[p]) + 1
                /\ Len(inflight'[p]) = Len(inflight[p]) + 1
                /\ ~isRunning[p] /\ isRunning'[p]
                /\ p = find(p[1])
                /\ \A q \in Instances \ {p} : inflight'[q] = inflight[q]
      /\ (out'.op = "execute" /\ out'.origin = "manual" /\ out'.kind \in {"success", "failure"})
           => ~out'.escaped ]_vars

\* C24 witness: an execution begun by executeManually returned its success result.
C24_ManualReturnedResult ==
  out.op = "execute" /\ out.origin = "manual" /\ out.kind = "success" /\ ~out.escaped

C26_RestartClean ==
  [][ (out'.op = "start" /\ out'.kind = "ok" /\ strategies /= << >> /\ ~schedRunning)
        => LET new == Range(strategies') IN
           /\ new \cap Range(strategies) = {}
           /\ \A p \in new : /\ executionCount'[p] = 0
                             /\ lastError'[p] = NullInfo
                             /\ Len(inflight'[p]) <= 1
           /\ isConnected'
           /\ armed' = new ]_vars

\* C29 (as stated): when start() completes successfully the publisher is
\* connected, and the executions start() begins find it connected.
C29_ConnectedBeforeScheduling ==
  [][ (out'.op = "start" /\ out'.kind = "ok")
        => /\ isConnected /\ isConnected'
           /\ producer' = "built" ]_vars

\* C30 (as stated): at most one execution per source name is in flight at any
\* time, counting every pipeline instance created for that source (checked
\* where every live trigger belongs to a pipeline of the scheduler).
C30_SerializedPerSource ==
  armed \subseteq Range(strategies) =>
    \A p \in Instances, q \in Instances :
      /\ Len(inflight[p]) <= 1
      /\ (p /= q /\ p[1] = q[1]) => ~(inflight[p] /= << >> /\ inflight[q] /= << >>)

\* C31 (as stated): stop() cancels the triggers and disconnects without waiting
\* for an execution in flight, and an execute() that called publish() and
\* resolves once stop() is past its disconnect, the broker disconnected,
\* resolves with {success: false} carrying the not-connected error, records
\* it as lastError, clears isRunning and raises nothing.
C31_InFlightFailsAfterStop ==
  [][ /\ (stopsPending = "none" /\ stopsPending' /= "none") => inflight' = inflight
      /\ ( /\ out'.op = "execute" /\ out'.calledPublish
           /\ ~isConnected
           /\ (stopsPending = "ready" \/ ~schedRunning) )
           => /\ out'.kind = "failure"
              /\ out'.error.message = NotConnectedError.message
              /\ lastError'[out'.inst] = out'.error
              /\ ~isRunning'[out'.inst]
              /\ ~out'.escaped ]_vars

\* C32 (as stated): the connected flag turns true only in the step where a
\* pending broker connect succeeds and false only in the step where a pending
\* broker disconnect succeeds, and a connect() builds and connects a broker
\* client only when the publisher is not connected and no other connect is
\* in progress.
C32_ConnectionLifecycle ==
  [][ /\ (~isConnected /\ isConnected') => \E s \in startsPending : s.pc = "connecting"
      /\ (isConnected /\ ~isConnected') => stopsPending = "disconnecting"
      /\ \A s \in startsPending' \ startsPending :
           s.pc = "connecting" =>
             /\ ~isConnected
             /\ ~\E t \in startsPending : t.pc = "connecting" ]_vars

\* C33 (as stated): whenever an execute() call resolves, with a success, a
\* skipped or a failure result, the pipeline's isRunning flag is false.
C33_FlagClearedOnEveryExit ==
  out.op = "execute" => ~isRunning[out.inst]

\* C33 (amended): whenever an execute() call that went past the guard ends, with
\* a success result, a failure result or the exception of a failing error
\* handler, the pipeline's isRunning flag is false; a call that returns the
\* skipped result leaves the flag set, for the execution in flight.
C33_FlagClearedWhenRunEnds ==
  /\ (out.op = "execute" /\ out.kind \in {"success", "failure", "raised"}) => ~isRunning[out.inst]
  /\ (out.op = "execute" /\ out.kind = "skipped") => isRunning[out.inst]

\* C33 witness: an execution ended with the exception of the error handler and
\* the flag of its pipeline is cleared.
C33_ClearedAfterRaise ==
  /\ out.op = "execute" /\ out.kind = "raised"
  /\ ~isRunning[out.inst]
  /\ inflight[out.inst] = << >>

\* C34 (as stated): every live trigger is the one recorded in the timers map
\* under its source name, so each source has at most one live trigger and a
\* stop() leaves none.
C34_TriggersRecorded ==
  /\ armed = TimerTargets(timers)
  /\ \A p \in armed, q \in armed : p[1] = q[1] => p = q

\* C35 (as stated): while the scheduler is not running and no start() is in
\* progress, the timers map is empty and no trigger is live; resumeStrategy
\* on a stopped scheduler starts neither a trigger nor an execution.
C35_NoTriggerWhileStopped ==
  (~schedRunning /\ startsPending = {}) =>
    /\ \A n \in Sources : timers[n] = 0
    /\ armed = {}
    /\ out.op = "resumeStrategy" => out.kind /= "ok"

C37_LastErrorIsLatest ==
  /\ (out.op = "execute" /\ out.kind = "success") => lastError[out.inst] = NullInfo
  /\ (out.op = "execute" /\ out.kind = "failure") =>
       /\ out.error /= NullInfo
       /\ lastError[out.inst] = out.error

\* C38 (as stated): the error request() surfaces is classified recoverable
\* exactly when the failure of the last attempt was transient -- a transient
\* network code, a response status in [500,599] or the status 429; a failure
\* with no response and any other code is not recoverable after wrapping.
C38_ClassificationPreserved ==
  http.pc = "failed" =>
    LET last == http.errors[Len(http.errors)]
        transient ==
          \/ last.code \in {"ECONNRESET", "ETIMEDOUT", "ENOTFOUND", "EAI_AGAIN", "ECONNREFUSED"}
          \/ (last.responseStatus >= 500 /\ last.responseStatus <= 599)
          \/ last.responseStatus = 429
    IN isRecoverable(http.surfaced) <=> transient

\* C39 (as stated): between runs, every conversation that extract() returned
\* to a run that then failed, and that was not published since, is returned
\* again by the next extract().
C39_NoConversationLost ==
  cw.pc = "idle" =>
    \A c \in cw.unpublished :
      \/ ~cw.lastExecutionTime.set
      \/ c.created_at * 1000 > cw.lastExecutionTime.at

====
